---- MODULE Spec2Model ----
(***************************************************************************)
(* Loan Risk API (Backend/main.py): artifact loading, the feature          *)
(* transform preprocess_user_input, the explanation ranker get_reasons and *)
(* the /predict handler predict_risk.                                      *)
(*                                                                         *)
(* Numbers.  Every cell of a dataframe is a record [k, a, b, s]:           *)
(*   k = "num"  the number a                 (b = 1)                       *)
(*   k = "log"  the finite float ln(a), a>0  (b = 1; log1p(x) is ln(1+x))  *)
(*   k = "div"  the finite float a / b, b # 0                              *)
(*   k = "-inf" / "nan"  the two non-finite floats numpy's log returns     *)
(*   s = TRUE   once the external scaler has rewritten the cell            *)
(* int_rate is carried in hundredths of a percent (12.5 is 1250), every    *)
(* other raw number is an integer.  Probabilities and thresholds are exact *)
(* fractions [num, den].                                                   *)
(***************************************************************************)
EXTENDS Integers, Sequences, FiniteSets, TLC

\* ---- bounds of the model
MaxTicks == 2
ProbDen == 4
MaxCols == 6
MaxAttr == 2

\* ---- program constants (HIGH_INT_RATE: the code's 20 percent, in hundredths)
LOW_FICO == 660
HIGH_INT_RATE == 2000
HIGH_SUB_GRADE == 25
TOP_N == 5

VARIABLES
    started, bundle,
    risk_model, custom_threshold, risk_explainer, model_features, risk_scaler,
    today,
    req,
    t_in, t_first, t_second,
    r_call

globals == <<risk_model, custom_threshold, risk_explainer, model_features, risk_scaler>>
service == <<started, bundle, req>>
harness == <<t_in, t_first, t_second, r_call>>
vars == <<started, bundle, risk_model, custom_threshold, risk_explainer,
          model_features, risk_scaler, today, req, t_in, t_first, t_second, r_call>>

\* Python's None is the empty tuple, a present value x is <<x>>.
None == <<>>

Some(x) == <<x>>

Range(s) == {s[i] : i \in DOMAIN s}

Min(a, b) == IF a <= b THEN a ELSE b

\* ---------------------------------------------------------------- floats
Num(n) == [k |-> "num", a |-> n, b |-> 1, s |-> FALSE]

NegInf == [k |-> "-inf", a |-> 0, b |-> 1, s |-> FALSE]

NaN == [k |-> "nan", a |-> 0, b |-> 1, s |-> FALSE]

\* np.log: ln(x) for x > 0, -inf (with a RuntimeWarning only) at 0, nan below 0.
NpLog(x) ==
    IF x > 0 THEN [k |-> "log", a |-> x, b |-> 1, s |-> FALSE]
    ELSE IF x = 0 THEN NegInf
    ELSE NaN

\* np.log1p(x) = np.log(1 + x)
NpLog1p(x) == NpLog(1 + x)

\* Python float division a / b for b # 0 (b = 0 raises ZeroDivisionError).
PyDiv(a, b) == [k |-> "div", a |-> a, b |-> b, s |-> FALSE]

\* ------------------------------------------------------------ dataframes
\* A one-row dataframe: its column labels in order, and the row.
NoDF == [columns |-> <<>>, row |-> <<>>]

\* pd.DataFrame(columns=required_cols); input_df.loc[0] = 0
\* (required_cols = None gives a frame without columns).
ZeroFrame(required_cols) ==
    LET cols == IF required_cols = None THEN <<>> ELSE required_cols[1]
    IN  [columns |-> cols, row |-> [c \in Range(cols) |-> Num(0)]]

\* input_df[c] = v : overwrite in place, or append a new column at the end.
SetCol(df, c, v) ==
    [columns |-> IF c \in Range(df.columns) THEN df.columns ELSE Append(df.columns, c),
     row |-> [x \in (DOMAIN df.row) \cup {c} |-> IF x = c THEN v ELSE df.row[x]]]

\* ---------------------------------------------------------------- dates
\* datetime.now() / a date: [y, m, d].  Only y and m are read by the code.
DaysIn(y, m) ==
    IF m = 2 THEN (IF y % 4 = 0 /\ (y % 100 # 0 \/ y % 400 = 0) THEN 29 ELSE 28)
    ELSE IF m \in {4, 6, 9, 11} THEN 30 ELSE 31

NextDay(t) ==
    IF t.d < DaysIn(t.y, t.m) THEN [t EXCEPT !.d = t.d + 1]
    ELSE IF t.m < 12 THEN [y |-> t.y, m |-> t.m + 1, d |-> 1]
    ELSE [y |-> t.y + 1, m |-> 1, d |-> 1]

StartDates == {[y |-> 2026, m |-> 11, d |-> 29], [y |-> 2026, m |-> 12, d |-> 30]}

\* ------------------------------------------------------ preprocess_user_input
SubgradeLetters == <<"A", "B", "C", "D", "E", "F", "G">>

SubgradeDigits == <<"1", "2", "3", "4", "5">>

subgrade_mapping ==
    "A1" :> 1 @@ "A2" :> 2 @@ "A3" :> 3 @@ "A4" :> 4 @@ "A5" :> 5 @@
    "B1" :> 6 @@ "B2" :> 7 @@ "B3" :> 8 @@ "B4" :> 9 @@ "B5" :> 10 @@
    "C1" :> 11 @@ "C2" :> 12 @@ "C3" :> 13 @@ "C4" :> 14 @@ "C5" :> 15 @@
    "D1" :> 16 @@ "D2" :> 17 @@ "D3" :> 18 @@ "D4" :> 19 @@ "D5" :> 20 @@
    "E1" :> 21 @@ "E2" :> 22 @@ "E3" :> 23 @@ "E4" :> 24 @@ "E5" :> 25 @@
    "F1" :> 26 @@ "F2" :> 27 @@ "F3" :> 28 @@ "F4" :> 29 @@ "F5" :> 30 @@
    "G1" :> 31 @@ "G2" :> 32 @@ "G3" :> 33 @@ "G4" :> 34 @@ "G5" :> 35

\* subgrade_mapping.get(code, 0)
SubgradeGet(code) ==
    IF code \in DOMAIN subgrade_mapping THEN subgrade_mapping[code] ELSE 0

\* months_diff, floored at 1
MonthsDiff(now, earliest) ==
    LET months_diff == (now.y - earliest.y) * 12 + (now.m - earliest.m)
    IN  IF months_diff > 1 THEN months_diff ELSE 1

\* Mutant: the low-FICO boundary taken inclusively.
FlagLowFico_inclusive(fico_range) == IF fico_range <= LOW_FICO THEN 1 ELSE 0

FlagLowFico(fico_range) == IF fico_range < LOW_FICO THEN 1 ELSE 0

FlagHighIntRate(int_rate_val) == IF int_rate_val > HIGH_INT_RATE THEN 1 ELSE 0

FlagHighSubGrade(sub_grade_val) == IF sub_grade_val > HIGH_SUB_GRADE THEN 1 ELSE 0

\* home_val after folding 'ANY' and 'NONE' into 'OTHER'
HomeVal(home_ownership) ==
    IF home_ownership \in {"ANY", "NONE"} THEN "OTHER" ELSE home_ownership

\* The assignments of the function body, in program order.  always = FALSE
\* marks the one-hot writes, made only if the column is already in the frame.
Assignments(raw_data, now) ==
    LET sub_grade_val == SubgradeGet(raw_data.sub_grade)
        W(c, v) == [col |-> c, val |-> v, always |-> TRUE]
        H(c) == [col |-> c, val |-> Num(1), always |-> FALSE]
    IN  << W("loan_amnt_log", NpLog(raw_data.loan_amnt)),
           W("annual_inc_log", NpLog(raw_data.annual_inc)),
           W("revol_bal_log", NpLog1p(raw_data.revol_bal)),
           W("term_num", Num(raw_data.term)),
           W("int_rate_num", Num(raw_data.int_rate)),
           W("revol_util_num", Num(raw_data.revol_util)),
           W("emp_length_num", Num(raw_data.emp_length)),
           W("sub_grade_map", Num(sub_grade_val)),
           W("fico_range", Num(raw_data.fico_range)),
           W("earliest_cr_line_months_log",
             NpLog(MonthsDiff(now, raw_data.earliest_cr_line))),
           W("int_rate_per_fico", PyDiv(raw_data.int_rate, raw_data.fico_range)),
           W("mort_acc_utilization", PyDiv(raw_data.mort_acc, raw_data.total_acc + 1)),
           W("flag_low_fico", Num(FlagLowFico(raw_data.fico_range))),
           W("flag_high_int_rate", Num(FlagHighIntRate(raw_data.int_rate))),
           W("flag_high_sub_grade", Num(FlagHighSubGrade(sub_grade_val))),
           H("purpose_" \o raw_data.purpose),
           H("application_type_" \o raw_data.application_type),
           H("home_ownership_new_" \o HomeVal(raw_data.home_ownership)),
           H("verification_status_" \o raw_data.verification_status),
           W("dti", Num(raw_data.dti)),
           W("open_acc", Num(raw_data.open_acc)),
           W("pub_rec_clip", Num(raw_data.pub_rec)),
           W("total_acc", Num(raw_data.total_acc)),
           W("mort_acc", Num(raw_data.mort_acc)),
           W("pub_rec_bankruptcies_clip", Num(raw_data.pub_rec_bankruptcies)) >>

RECURSIVE ApplyFrom(_, _, _)
ApplyFrom(df, steps, i) ==
    IF i > Len(steps) THEN df
    ELSE LET st == steps[i]
         IN  IF st.always \/ st.col \in Range(df.columns)
             THEN ApplyFrom(SetCol(df, st.col, st.val), steps, i + 1)
             ELSE ApplyFrom(df, steps, i + 1)

\* Mutant: the ratios computed with numpy semantics, where x / 0 does not raise.
PreprocessRaises_numpy(raw_data) == FALSE

\* The two Python float divisions raise ZeroDivisionError on a zero divisor;
\* nothing else in the body raises for a type-valid record.
PreprocessRaises(raw_data) ==
    raw_data.fico_range = 0 \/ raw_data.total_acc + 1 = 0

\* preprocess_user_input(raw_data, required_cols), called at wall-clock time now.
preprocess_user_input(raw_data, required_cols, now) ==
    IF PreprocessRaises(raw_data)
    THEN [raised |-> TRUE, df |-> NoDF]
    ELSE [raised |-> FALSE,
          df |-> ApplyFrom(ZeroFrame(required_cols), Assignments(raw_data, now), 1)]

\* ------------------------------------------------------------- get_reasons
FRIENDLY_NAMES ==
    "loan_amnt_log" :> "Requested Loan Amount" @@
    "term_num" :> "Loan Term Length" @@
    "int_rate_num" :> "Interest Rate" @@
    "sub_grade_map" :> "Credit Grade" @@
    "emp_length_num" :> "Employment History" @@
    "annual_inc_log" :> "Annual Income" @@
    "dti" :> "Debt-to-Income Ratio" @@
    "purpose_car" :> "Loan Purpose: Car" @@
    "purpose_credit_card" :> "Loan Purpose: Credit Card" @@
    "purpose_debt_consolidation" :> "Loan Purpose: Debt Consolidation" @@
    "purpose_home_improvement" :> "Loan Purpose: Home Improvement" @@
    "purpose_major_purchase" :> "Loan Purpose: Major Purchase" @@
    "purpose_medical" :> "Loan Purpose: Medical" @@
    "purpose_other" :> "Loan Purpose: Other" @@
    "purpose_small_business" :> "Loan Purpose: Small Business" @@
    "application_type_Joint App" :> "Joint Application" @@
    "application_type_Individual" :> "Individual Application" @@
    "fico_range" :> "FICO Credit Score" @@
    "earliest_cr_line_months_log" :> "Length of Credit History" @@
    "open_acc" :> "Open Credit Lines" @@
    "total_acc" :> "Total Credit Accounts" @@
    "revol_bal_log" :> "Total Revolving Balance" @@
    "revol_util_num" :> "Credit Line Utilization" @@
    "pub_rec_clip" :> "Public Derogatory Records" @@
    "pub_rec_bankruptcies_clip" :> "Bankruptcy History" @@
    "mort_acc" :> "Number of Mortgage Accounts" @@
    "home_ownership_new_RENT" :> "Housing Status (Renting)" @@
    "home_ownership_new_OWN" :> "Housing Status (Owning)" @@
    "home_ownership_new_MORTGAGE" :> "Housing Status (Mortgage)" @@
    "home_ownership_new_OTHER" :> "Housing Status (Other)" @@
    "verification_status_Verified" :> "Income Verified" @@
    "verification_status_Source Verified" :> "Income Source Verification" @@
    "verification_status_Not Verified" :> "Income Source not Verification" @@
    "mort_acc_utilization" :> "Mortgage Account Density" @@
    "int_rate_per_fico" :> "Interest Rate to Score Ratio" @@
    "flag_low_fico" :> "Low Credit Score Warning" @@
    "flag_high_int_rate" :> "High Interest Rate Warning" @@
    "flag_high_sub_grade" :> "Risk Grade Warning"

\* f"{FRIENDLY_NAMES.get(feat, feat)} influenced this decision"
Reason(feat) ==
    (IF feat \in DOMAIN FRIENDLY_NAMES THEN FRIENDLY_NAMES[feat] ELSE feat)
        \o " influenced this decision"

\* What one call risk_explainer(processed_df) does: it raises, or returns an
\* object whose .values has ndim dimensions:
\*   ndim = 2  vals = << <<v_1, ..., v_n>> >>                  (samples, features)
\*   ndim = 3  vals = << << <<c0, c1>>_1, ..., <<..>>_n >> >>  (samples, features, classes)
\*   ndim = 1  vals = <<v_1, ..., v_n>>                         (features) only
\* Whether the normalisation of lines 246-251 and the zip of line 254 raise.
ShapUnusable(shap_obj) ==
    \/ Len(shap_obj.vals) = 0
    \/ shap_obj.ndim = 1
    \/ /\ shap_obj.ndim = 3
       /\ \E i \in DOMAIN shap_obj.vals[1] : Len(shap_obj.vals[1][i]) < 2

\* vals[0, :, 1] if vals.ndim == 3 else vals[0]
ShapFlat(shap_obj) ==
    IF shap_obj.ndim = 3
    THEN [i \in DOMAIN shap_obj.vals[1] |-> shap_obj.vals[1][i][2]]
    ELSE shap_obj.vals[1]

\* list(zip(processed_df.columns, shap_values_flat))
Zip(columns, flat) ==
    [i \in 1..Min(Len(columns), Len(flat)) |-> [feat |-> columns[i], val |-> flat[i]]]

\* One step of the stable descending sort: x goes after every entry >= x.
InsertDesc(sorted, x) ==
    LET lower == {p \in DOMAIN sorted : sorted[p].val < x.val}
        at == IF lower = {} THEN Len(sorted) + 1
              ELSE CHOOSE p \in lower : \A q \in lower : p <= q
    IN  SubSeq(sorted, 1, at - 1) \o <<x>> \o SubSeq(sorted, at, Len(sorted))

RECURSIVE SortFrom(_, _, _)
SortFrom(sorted, contributions, i) ==
    IF i > Len(contributions) THEN sorted
    ELSE SortFrom(InsertDesc(sorted, contributions[i]), contributions, i + 1)

\* Mutant: the sort direction follows is_rejected (reverse=is_rejected).
SortContributions_byClass(contributions, prediction_cls) ==
    IF prediction_cls = 1 THEN SortFrom(<<>>, contributions, 1)
    ELSE LET neg(cs) == [i \in DOMAIN cs |-> [cs[i] EXCEPT !.val = 0 - cs[i].val]]
         IN  neg(SortFrom(<<>>, neg(contributions), 1))

\* contributions.sort(key=lambda x: x[1], reverse=True); prediction_cls only
\* feeds the unused local is_rejected.
SortContributions(contributions, prediction_cls) ==
    SortFrom(<<>>, contributions, 1)

\* Mutant: explanation as a best-effort addendum, an empty list on any failure.
get_reasons_best_effort(processed_df, prediction_cls, explainer, shap_call) ==
    IF explainer = None \/ shap_call.raises \/ ShapUnusable(shap_call)
    THEN [raised |-> FALSE, reasons |-> <<>>]
    ELSE LET ranked == SortFrom(<<>>, Zip(processed_df.columns, ShapFlat(shap_call)), 1)
             top_5 == SubSeq(ranked, 1, Min(TOP_N, Len(ranked)))
         IN  [raised |-> FALSE,
              reasons |-> [i \in DOMAIN top_5 |-> Reason(top_5[i].feat)]]

\* get_reasons(processed_df, prediction_cls) with the global risk_explainer
\* (None or <<kind>>) and the behaviour of this one explainer call.
get_reasons(processed_df, prediction_cls, explainer, shap_call) ==
    IF explainer = None \/ shap_call.raises \/ ShapUnusable(shap_call)
    THEN [raised |-> TRUE, reasons |-> <<>>]
    ELSE LET contributions == Zip(processed_df.columns, ShapFlat(shap_call))
             ranked == SortContributions(contributions, prediction_cls)
             top_5 == SubSeq(ranked, 1, Min(TOP_N, Len(ranked)))
         IN  [raised |-> FALSE,
              reasons |-> [i \in DOMAIN top_5 |-> Reason(top_5[i].feat)]]

\* ---------------------------------------------------------- load_artifacts
DefaultThreshold == [num |-> 1, den |-> 2]

\* The module-level globals before startup.
InitialGlobals ==
    [risk_model |-> None, custom_threshold |-> DefaultThreshold,
     risk_explainer |-> None, model_features |-> None, risk_scaler |-> None]

\* "logistic" in model_type or "linear" in model_type
IsLinearType(model_type) == model_type \in {"logistic", "linear"}

\* load_artifacts().  loaded is None when joblib.load raises, else <<bundle>>;
\* primary_ok / kernel_ok say whether the Linear/Tree explainer and then the
\* KernelExplainer fallback can be constructed.
load_artifacts(g, loaded, primary_ok, kernel_ok) ==
    IF loaded = None THEN g
    ELSE LET b == loaded[1]
             g1 == [risk_model |-> b.model,
                    custom_threshold |->
                        IF b.threshold = None THEN DefaultThreshold ELSE b.threshold[1],
                    risk_explainer |-> g.risk_explainer,
                    model_features |-> b.feature_names,
                    risk_scaler |-> b.scaler]
         IN  IF b.model = None THEN g1
             ELSE IF primary_ok
                  THEN [g1 EXCEPT !.risk_explainer =
                            Some(IF IsLinearType(b.model_type) THEN "linear" ELSE "tree")]
                  ELSE IF kernel_ok THEN [g1 EXCEPT !.risk_explainer = Some("kernel")]
                       ELSE g1

\* ------------------------------------------------------------ predict_risk
\* risk_scaler.transform(processed_df), rebuilt over the same columns.
Scaled(df) ==
    [columns |-> df.columns, row |-> [c \in DOMAIN df.row |-> [df.row[c] EXCEPT !.s = TRUE]]]

\* p >= t on exact fractions
FracGE(p, t) == p.num * t.den >= t.num * p.den

\* Mutant: the threshold boundary taken exclusively.
Prediction_strict(risk_probability, threshold) ==
    IF FracGE(risk_probability, threshold) /\ ~FracGE(threshold, risk_probability)
    THEN 1 ELSE 0

\* prediction = 1 if risk_probability >= custom_threshold else 0
Prediction(risk_probability, threshold) ==
    IF FracGE(risk_probability, threshold) THEN 1 ELSE 0

\* round(risk_probability * 100, 2), in hundredths, ties to even
RiskScore(p) ==
    LET n == p.num * 10000
        q == n \div p.den
        r == n % p.den
    IN  IF 2 * r > p.den \/ (2 * r = p.den /\ q % 2 = 1) THEN q + 1 ELSE q

\* Mutant: the scaler's output is computed but processed_df is not reassigned.
ProcessedDF_unassigned(g, pre_df) == pre_df

\* processed_df as handed to predict_proba and get_reasons: reassigned to the
\* scaler's output when a scaler was loaded.
ProcessedDF(g, pre_df) ==
    IF g.risk_scaler # None THEN Scaled(pre_df) ELSE pre_df

Call(op, df_in, df_out) == [op |-> op, df_in |-> df_in, df_out |-> df_out]

Result(code, detail, calls, response, prob) ==
    [code |-> code, detail |-> detail, calls |-> calls, response |-> response, prob |-> prob]

\* predict_risk(application) under globals g at time now.  env is what the
\* collaborators do during this request: scale_ok (scaler.transform returns),
\* proba (None: predict_proba raises, else <<P(class 1)>>), shap (the explainer call).
predict_risk(g, raw_data, now, env) ==
    IF g.risk_model = None
    THEN Result(500, "Model not loaded", <<>>, None, None)
    ELSE
    LET pre == preprocess_user_input(raw_data, g.model_features, now)
        c1 == <<Call("transform", NoDF, pre.df)>>
    IN  IF pre.raised THEN Result(400, "Preprocessing Error", c1, None, None)
        ELSE
        LET scaling == g.risk_scaler # None
            c2 == IF scaling
                  THEN c1 \o <<Call("normalize", pre.df,
                                    IF env.scale_ok THEN Scaled(pre.df) ELSE NoDF)>>
                  ELSE c1
            processed_df == ProcessedDF(g, pre.df)
        IN  IF scaling /\ ~env.scale_ok
            THEN Result(500, "Prediction Error", c2, None, None)
            ELSE
            LET c3 == c2 \o <<Call("evaluate", processed_df, NoDF)>>
            IN  IF env.proba = None
                THEN Result(500, "Prediction Error", c3, None, None)
                ELSE
                LET risk_probability == env.proba[1]
                    prediction == Prediction(risk_probability, g.custom_threshold)
                    c4 == c3 \o <<Call("explain", processed_df, NoDF)>>
                    expl == get_reasons(processed_df, prediction, g.risk_explainer, env.shap)
                IN  IF expl.raised
                    THEN Result(500, "Prediction Error", c4, None, env.proba)
                    ELSE Result(200, "", c4,
                                Some([status |-> IF prediction = 1 THEN "Rejected"
                                                 ELSE "Approved",
                                      risk_score |-> RiskScore(risk_probability),
                                      threshold_used |-> g.custom_threshold,
                                      reasons |-> expl.reasons]),
                                env.proba)

\* ------------------------------------------------------------------ inputs
\* One LoanApplication (the fields of the request schema).
BaseRaw ==
    [loan_amnt |-> 10000, term |-> 36, int_rate |-> 1250, sub_grade |-> "B3",
     emp_length |-> 5, annual_inc |-> 50000, dti |-> 18,
     verification_status |-> "Verified", pub_rec |-> 0, pub_rec_bankruptcies |-> 0,
     revol_bal |-> 0, revol_util |-> 30, fico_range |-> 700,
     earliest_cr_line |-> [y |-> 2015, m |-> 6, d |-> 15],
     total_acc |-> 10, mort_acc |-> 1, open_acc |-> 5, purpose |-> "car",
     application_type |-> "Individual", home_ownership |-> "RENT"]

AllSubgrades ==
    {SubgradeLetters[i] \o SubgradeDigits[j] :
        i \in DOMAIN SubgradeLetters, j \in DOMAIN SubgradeDigits}

UnknownSubgrades == {"H1", "A6", "a1", "", "A"}

\* Applications given to the transform alone.
TransformRaws ==
    {[BaseRaw EXCEPT !.loan_amnt = l, !.annual_inc = a, !.fico_range = f] :
        l \in {10000, 0, -5}, a \in {50000, 0}, f \in {700, 0}}
    \cup {[BaseRaw EXCEPT !.sub_grade = g] : g \in AllSubgrades \cup UnknownSubgrades}
    \cup {[BaseRaw EXCEPT !.fico_range = f, !.int_rate = r] :
            f \in {659, 660, 661}, r \in {1999, 2000, 2001}}
    \cup {[BaseRaw EXCEPT !.home_ownership = h, !.purpose = q, !.earliest_cr_line = e] :
            h \in {"RENT", "ANY", "NONE", "OTHER"}, q \in {"car", "boat"},
            e \in {[y |-> 2026, m |-> 12, d |-> 31], [y |-> 2027, m |-> 6, d |-> 1]}}

\* Applications sent to /predict.
ServiceRaws ==
    {[BaseRaw EXCEPT !.loan_amnt = l, !.annual_inc = a, !.fico_range = f] :
        l \in {10000, 0}, a \in {50000, -1}, f \in {700, 0}}
    \cup {[BaseRaw EXCEPT !.sub_grade = "F1", !.int_rate = 2001, !.fico_range = 659]}

\* Feature orders a bundle may carry.
FullSchema ==
    <<"loan_amnt_log", "term_num", "int_rate_num", "sub_grade_map", "emp_length_num",
      "annual_inc_log", "dti", "purpose_car", "purpose_credit_card",
      "application_type_Individual", "fico_range", "earliest_cr_line_months_log",
      "open_acc", "total_acc", "revol_bal_log", "revol_util_num", "pub_rec_clip",
      "pub_rec_bankruptcies_clip", "mort_acc", "home_ownership_new_RENT",
      "home_ownership_new_OTHER", "verification_status_Verified",
      "mort_acc_utilization", "int_rate_per_fico", "flag_low_fico",
      "flag_high_int_rate", "flag_high_sub_grade">>

PartialSchema == <<"region_code", "dti", "home_ownership_new_OTHER", "fico_range">>

Schemas == {Some(FullSchema), Some(PartialSchema), None}

\* Artifact bundles joblib.load may return (None: the load itself raises).
Bundles ==
    { Some([model |-> Some("model"), threshold |-> Some([num |-> 3, den |-> 10]),
            feature_names |-> Some(FullSchema), background_data |-> TRUE,
            model_type |-> "logistic", scaler |-> Some("scaler")]),
      Some([model |-> Some("model"), threshold |-> None,
            feature_names |-> Some(FullSchema), background_data |-> FALSE,
            model_type |-> "xgboost", scaler |-> None]),
      Some([model |-> Some("model"), threshold |-> Some([num |-> 1, den |-> 1]),
            feature_names |-> Some(PartialSchema), background_data |-> FALSE,
            model_type |-> "unknown", scaler |-> None]),
      Some([model |-> None, threshold |-> None,
            feature_names |-> Some(FullSchema), background_data |-> FALSE,
            model_type |-> "xgboost", scaler |-> Some("scaler")]),
      Some([model |-> Some("model"), threshold |-> None,
            feature_names |-> None, background_data |-> FALSE,
            model_type |-> "xgboost", scaler |-> None]),
      None }

\* Signed attribution values.
AttrVals == {v - 1 : v \in 0..MaxAttr}

\* The explainer's return value over n features, from per-feature class-1 values.
ShapReturn(ndim, classes, flat) ==
    [raises |-> FALSE, ndim |-> ndim,
     vals |-> IF ndim = 1 THEN flat
              ELSE IF ndim = 2 THEN <<flat>>
              ELSE << [i \in DOMAIN flat |->
                        IF classes = 1 THEN <<flat[i]>> ELSE <<0 - flat[i], flat[i]>>] >>]

ShapRaise == [raises |-> TRUE, ndim |-> 2, vals |-> <<>>]

\* Attribution patterns over the n columns of a request's vector.
AttrPattern(kk, n) == [i \in 1..n |-> ((i * kk) % 5) - 2]

\* What the explainer call of one request does, by case: it raises, returns
\* (samples, features) values, (samples, features, classes) values with two
\* classes or with one, or a bare (features) vector.
ShapKinds == 0..(MaxAttr + 3)

ShapCall(kind, n) ==
    IF kind = 0 THEN ShapRaise
    ELSE IF kind <= MaxAttr THEN ShapReturn(2, 2, AttrPattern(kind, n))
    ELSE IF kind = MaxAttr + 1 THEN ShapReturn(3, 2, AttrPattern(1, n))
    ELSE IF kind = MaxAttr + 2 THEN ShapReturn(3, 1, AttrPattern(1, n))
    ELSE ShapReturn(1, 2, AttrPattern(1, n))

Probas == {None} \cup {Some([num |-> kk, den |-> ProbDen]) : kk \in 0..ProbDen}

\* Number of columns of the vector a request hands on (0 when the transform raises).
VectorWidth(g, raw_data, now) ==
    Len(preprocess_user_input(raw_data, g.model_features, now).df.columns)

\* ------------------------------------------------------------------ service
G == [risk_model |-> risk_model, custom_threshold |-> custom_threshold,
      risk_explainer |-> risk_explainer, model_features |-> model_features,
      risk_scaler |-> risk_scaler]

RECURSIVE DatesWithin(_)
DatesWithin(n) ==
    IF n = 0 THEN StartDates
    ELSE DatesWithin(n - 1) \cup {NextDay(t) : t \in DatesWithin(n - 1)}

Init ==
    /\ started = FALSE
    /\ bundle = None
    /\ risk_model = InitialGlobals.risk_model
    /\ custom_threshold = InitialGlobals.custom_threshold
    /\ risk_explainer = InitialGlobals.risk_explainer
    /\ model_features = InitialGlobals.model_features
    /\ risk_scaler = InitialGlobals.risk_scaler
    /\ today \in StartDates
    /\ req = None
    /\ t_in = None
    /\ t_first = None
    /\ t_second = None
    /\ r_call = None

\* The wall clock moves on by a day (a request's handler body runs without yielding).
Tick ==
    /\ MaxTicks > 0
    /\ req = None
    /\ today \in DatesWithin(MaxTicks - 1)
    /\ today' = NextDay(today)
    /\ UNCHANGED <<globals, service, harness>>

\* @app.on_event("startup")
LoadArtifacts ==
    /\ ~started
    /\ \E loaded \in Bundles, primary_ok \in BOOLEAN, kernel_ok \in BOOLEAN :
          LET g == load_artifacts(InitialGlobals, loaded, primary_ok, kernel_ok)
          IN  /\ risk_model' = g.risk_model
              /\ custom_threshold' = g.custom_threshold
              /\ risk_explainer' = g.risk_explainer
              /\ model_features' = g.model_features
              /\ risk_scaler' = g.risk_scaler
              /\ bundle' = Some(loaded)
    /\ started' = TRUE
    /\ UNCHANGED <<today, req, harness>>

\* POST /predict, one request from arrival to its response or HTTP error.
Predict ==
    /\ started
    /\ req = None
    /\ \E raw_data \in ServiceRaws, scale_ok \in BOOLEAN, proba \in Probas :
        \E kind \in ShapKinds :
          LET shap == ShapCall(kind, VectorWidth(G, raw_data, today))
          IN
          req' = Some([raw |-> raw_data, at |-> today,
                       shap |-> shap, scale_ok |-> scale_ok,
                       res |-> predict_risk(G, raw_data, today,
                                  [scale_ok |-> scale_ok, proba |-> proba, shap |-> shap])])
    /\ UNCHANGED <<globals, started, bundle, today, harness>>

\* The response has been sent; the request's state is discarded.
Respond ==
    /\ req # None
    /\ req' = None
    /\ UNCHANGED <<globals, started, bundle, today, harness>>

Next == LoadArtifacts \/ Tick \/ Predict \/ Respond

Spec == Init /\ [][Next]_vars

\* ------------------------------------------- the transform called on its own
TransformFirst ==
    /\ t_in = None
    /\ \E raw_data \in TransformRaws, required_cols \in Schemas :
          /\ t_in' = Some([raw |-> raw_data, schema |-> required_cols])
          /\ t_first' = Some([at |-> today,
                              out |-> preprocess_user_input(raw_data, required_cols, today)])
    /\ UNCHANGED <<globals, service, today, t_second, r_call>>

\* The same record and schema again, at whatever time it now is.
TransformSecond ==
    /\ t_first # None
    /\ t_second = None
    /\ t_second' = Some([at |-> today,
                         out |-> preprocess_user_input(t_in[1].raw, t_in[1].schema, today)])
    /\ UNCHANGED <<globals, service, today, t_in, t_first, r_call>>

NextTransform == TransformFirst \/ TransformSecond \/ Tick

SpecTransform == Init /\ [][NextTransform]_vars

\* ------------------------------------------- the ranker called on its own
ColumnPool ==
    <<"dti", "region_code", "fico_range", "flag_low_fico", "loan_amnt_log",
      "purpose_car", "term_num", "open_acc", "channel">>

\* get_reasons on a vector of n columns, for both decision classes.
Rank ==
    /\ r_call = None
    /\ \E n \in 0..MaxCols, ndim \in {2, 3} :
        \E flat \in [1..n -> AttrVals] :
          LET df == ZeroFrame(Some(SubSeq(ColumnPool, 1, n)))
              shap == ShapReturn(ndim, 2, flat)
          IN  r_call' = Some([df |-> df, flat |-> flat, ndim |-> ndim,
                              out |-> [cls \in {0, 1} |->
                                         get_reasons(df, cls, Some("tree"), shap)]])
    /\ UNCHANGED <<globals, service, today, t_in, t_first, t_second>>

NextRank == Rank

SpecRank == Init /\ [][NextRank]_vars

\* ================================================================== claims
FixedNames(raw_data, now) ==
    {Assignments(raw_data, now)[i].col : i \in DOMAIN Assignments(raw_data, now)}

\* C1: for every schema (also one that omits columns the transform writes by
\* fixed name) the returned vector has exactly the schema's columns, in the
\* schema's order, nothing missing, nothing extra, and every column the
\* transform does not write holds 0.
C1_ExactlySchemaColumns ==
    (t_first # None /\ t_in[1].schema # None /\ ~t_first[1].out.raised) =>
        LET schema == t_in[1].schema[1]
            df == t_first[1].out.df
        IN  /\ df.columns = schema
            /\ DOMAIN df.row = Range(schema)
            /\ \A c \in Range(schema) \cap DOMAIN df.row :
                  c \notin FixedNames(t_in[1].raw, t_first[1].at) => df.row[c] = Num(0)

NonFinite(df) == \E c \in DOMAIN df.row : df.row[c].k \in {"-inf", "nan"}

\* C2: whenever loan_amnt <= 0 or annual_inc <= 0 the transform raises, the
\* request that reached it ends as a 400 Preprocessing failure, and no vector
\* holding -inf or NaN is handed to the scaler, the model or the explainer.
C2_NonPositiveFailsLoudly ==
    (req # None /\ req[1].res.calls # <<>>
        /\ (req[1].raw.loan_amnt <= 0 \/ req[1].raw.annual_inc <= 0)) =>
        /\ req[1].res.code = 400
        /\ \A i \in DOMAIN req[1].res.calls :
              req[1].res.calls[i].op # "transform" => ~NonFinite(req[1].res.calls[i].df_in)

\* C3: when the loaded bundle has no model or no feature_names, the service
\* has started and every scoring request is refused at the gate: no transform,
\* model or attribution call is made and no scoring response is returned.
C3_MissingComponentRefused ==
    (started /\ req # None /\ bundle[1] # None
        /\ (bundle[1][1].model = None \/ bundle[1][1].feature_names = None)) =>
        /\ req[1].res.calls = <<>>
        /\ req[1].res.code = 500
        /\ req[1].res.response = None

\* C4: two calls of the transform with the same record and the same schema
\* return identical vectors, whatever the two times of the calls.
C4_SameResultAtAnyTwoTimes ==
    t_second # None => t_second[1].out = t_first[1].out

\* C5: a successful response is "Rejected" exactly when probability >=
\* threshold and "Approved" exactly when probability < threshold (equality is
\* rejected), and it reports the threshold the comparison used.
C5_DecisionAtThreshold ==
    (req # None /\ req[1].res.code = 200) =>
        LET p == req[1].res.prob[1]
            out == req[1].res.response[1]
        IN  /\ out.status \in {"Rejected", "Approved"}
            /\ out.status = "Rejected" <=>
                  p.num * custom_threshold.den >= custom_threshold.num * p.den
            /\ out.status = "Approved" <=>
                  p.num * custom_threshold.den < custom_threshold.num * p.den
            /\ out.threshold_used = custom_threshold

C5_Witness ==
    /\ req # None
    /\ req[1].res.code = 200
    /\ req[1].res.prob[1].num * custom_threshold.den
          = custom_threshold.num * req[1].res.prob[1].den
    /\ req[1].res.response[1].status = "Rejected"

\* Position of the column a reason string was rendered from.
ReasonPos(columns, reason) ==
    CHOOSE i \in DOMAIN columns : Reason(columns[i]) = reason

\* C6: for a vector of n columns get_reasons returns exactly min(5, n) reasons,
\* rendered from the columns with the largest signed attribution values, in
\* descending order of signed value, and the same list for class 0 and class 1.
C6_TopFiveDescending ==
    r_call # None =>
        LET columns == r_call[1].df.columns
            flat == r_call[1].flat
            n == Len(columns)
            reasons == r_call[1].out[1].reasons
            pos == [j \in DOMAIN reasons |-> ReasonPos(columns, reasons[j])]
        IN  /\ ~r_call[1].out[1].raised
            /\ Len(reasons) = IF n < 5 THEN n ELSE 5
            /\ \A j \in DOMAIN reasons :
                  \E i \in DOMAIN columns : Reason(columns[i]) = reasons[j]
            /\ \A j, jj \in DOMAIN reasons : j # jj => pos[j] # pos[jj]
            /\ \A j, jj \in DOMAIN reasons : j < jj => flat[pos[j]] >= flat[pos[jj]]
            /\ \A i \in DOMAIN columns :
                  i \notin Range(pos) => \A j \in DOMAIN reasons : flat[i] <= flat[pos[j]]
            /\ r_call[1].out[0] = r_call[1].out[1]

C6_Witness ==
    /\ r_call # None
    /\ Len(r_call[1].df.columns) > 5
    /\ Len(r_call[1].out[0].reasons) = 5
    /\ r_call[1].ndim = 3
    /\ r_call[1].flat = <<0, -1, 1, 1, -1, 1>>
    /\ r_call[1].out[1].reasons =
          <<Reason("fico_range"), Reason("flag_low_fico"), Reason("purpose_car"),
            Reason("dti"), Reason("region_code")>>

\* C7: within one request the steps run in the order transform, normalize
\* (only with a scaler loaded), evaluate, explain, each at most once, and the
\* vector handed to the explainer is the one handed to the model: the
\* scaler's output whenever a scaler was loaded, the transform's otherwise.
C7_StepOrderAndVector ==
    req # None =>
        LET calls == req[1].res.calls
            expected == IF risk_scaler # None
                        THEN <<"transform", "normalize", "evaluate", "explain">>
                        ELSE <<"transform", "evaluate", "explain">>
        IN  /\ Len(calls) <= Len(expected)
            /\ \A i \in DOMAIN calls : calls[i].op = expected[i]
            /\ \A i \in DOMAIN calls :
                  /\ calls[i].op = "normalize" => calls[i].df_in = calls[1].df_out
                  /\ calls[i].op = "evaluate" => calls[i].df_in = calls[i - 1].df_out
                  /\ calls[i].op = "explain" => calls[i].df_in = calls[i - 1].df_in

C7_Witness ==
    /\ req # None
    /\ risk_scaler # None
    /\ req[1].res.code = 200
    /\ Len(req[1].res.calls) = 4
    /\ req[1].res.calls[4].df_in = req[1].res.calls[2].df_out
    /\ req[1].res.calls[4].df_in # req[1].res.calls[1].df_out

\* C8: a request with fico_range = 0 never yields a scoring response: once past
\* the model gate the division raises inside the transform, the request ends
\* as a 400 Preprocessing failure with no vector produced, and no vector with
\* a zero-divisor ratio is ever handed on.
C8_ZeroFicoIsClientError ==
    req # None =>
        /\ req[1].raw.fico_range = 0 =>
              /\ req[1].res.code # 200
              /\ req[1].res.response = None
              /\ risk_model # None =>
                    /\ req[1].res.code = 400
                    /\ req[1].res.detail = "Preprocessing Error"
                    /\ Len(req[1].res.calls) = 1
                    /\ req[1].res.calls[1].df_out = NoDF
        /\ \A i \in DOMAIN req[1].res.calls :
              \A df \in {req[1].res.calls[i].df_in, req[1].res.calls[i].df_out} :
                  "int_rate_per_fico" \in DOMAIN df.row => df.row["int_rate_per_fico"].b # 0

C8_Witness ==
    /\ req # None
    /\ req[1].raw.fico_range = 0
    /\ risk_model # None
    /\ req[1].res.code = 400
    /\ req[1].res.calls[1].op = "transform"

\* The attribution step of the request failed: no explainer was initialised,
\* the explainer call raised, or it returned values of an unusable shape.
AttributionFailed ==
    \/ risk_explainer = None
    \/ req[1].shap.raises
    \/ req[1].shap.ndim \notin {2, 3}
    \/ req[1].shap.ndim = 3 /\ Len(req[1].shap.vals[1][1]) < 2

\* C9: a scoring response is returned only after the attribution step has
\* completed for that request; if the explainer is absent, raises or returns an
\* unusable shape, the request ends as a 500 and carries no status or score.
C9_NoResponseWithoutExplanation ==
    req # None =>
        LET calls == req[1].res.calls
            explained == calls # <<>> /\ calls[Len(calls)].op = "explain"
        IN  /\ (req[1].res.response # None \/ req[1].res.code = 200) =>
                  (explained /\ ~AttributionFailed /\ req[1].res.response # None)
            /\ (explained /\ AttributionFailed) =>
                  (req[1].res.code = 500 /\ req[1].res.response = None)

C9_Witness ==
    /\ req # None
    /\ risk_model # None
    /\ risk_explainer = None
    /\ req[1].res.calls # <<>>
    /\ req[1].res.calls[Len(req[1].res.calls)].op = "explain"
    /\ ~req[1].shap.raises
    /\ req[1].shap.ndim = 2
    /\ req[1].res.code = 500

\* The fixed ordinal of a sub-grade code: 1..35 for A1..G5, 0 for anything else.
Ordinal(code) ==
    IF \E i \in 1..7, j \in 1..5 : code = SubgradeLetters[i] \o SubgradeDigits[j]
    THEN LET ij == CHOOSE ij \in (1..7) \X (1..5) :
                      code = SubgradeLetters[ij[1]] \o SubgradeDigits[ij[2]]
         IN  5 * (ij[1] - 1) + ij[2]
    ELSE 0

FlagsOf(raw_data, df) ==
    /\ df.row["flag_low_fico"] = Num(IF raw_data.fico_range < 660 THEN 1 ELSE 0)
    /\ df.row["flag_high_int_rate"] = Num(IF raw_data.int_rate > 2000 THEN 1 ELSE 0)
    /\ df.row["flag_high_sub_grade"] = Num(IF Ordinal(raw_data.sub_grade) > 25 THEN 1 ELSE 0)
    /\ df.row["sub_grade_map"] = Num(Ordinal(raw_data.sub_grade))

\* C10: in every vector the transform returns, the low-FICO flag is 1 iff
\* FICO < 660, the high-rate flag is 1 iff the rate > 20, the high-sub-grade
\* flag is 1 iff the sub-grade ordinal > 25 (1..35 for A1..G5, 0 otherwise),
\* and each flag is 0 otherwise.
C10_RiskFlags ==
    /\ (t_first # None /\ ~t_first[1].out.raised) =>
          FlagsOf(t_in[1].raw, t_first[1].out.df)
    /\ (t_second # None /\ ~t_second[1].out.raised) =>
          FlagsOf(t_in[1].raw, t_second[1].out.df)

C10_Witness ==
    /\ t_first # None
    /\ t_in[1].schema = Some(PartialSchema)
    /\ t_in[1].raw.fico_range = 659
    /\ t_in[1].raw.int_rate = 2001
    /\ ~t_first[1].out.raised
    /\ t_first[1].out.df.row["flag_low_fico"] = Num(1)
    /\ t_first[1].out.df.row["flag_high_int_rate"] = Num(1)
    /\ t_first[1].out.df.row["flag_high_sub_grade"] = Num(0)

====
